---- MODULE Spec2Model ----
(***************************************************************************)
(* Budget_Opt: the marketing-budget environment (MarketingEnv), the PPO    *)
(* agent (PPOAgent.compute_advantage, PPOAgent.update) and the training    *)
(* loop of Optimization_way_algo.ipynb.                                    *)
(*                                                                         *)
(* Numbers are exact rationals [n, d] in lowest terms with d > 0; d = 0    *)
(* stands for a non-finite float (n = 0: NaN, the result of 0/0).  The     *)
(* rounding of float32/float64 is not modelled: "equal" below is equality  *)
(* of the exact values.                                                    *)
(***************************************************************************)
EXTENDS Integers, Sequences, FiniteSets

VARIABLES
  pc,            \* position of the notebook's driver (or of a direct call)
  betas,         \* MarketingEnv.betas
  budget,        \* MarketingEnv.budget
  num_episodes,  \* num_episodes of the training cell
  env_state,     \* MarketingEnv.state
  episode,       \* loop variable of "for episode in range(num_episodes)"
  t,             \* loop variable of "for t in range(10)"
  state,         \* the training cell's variable state
  states,        \* trajectory lists of the training cell
  actions,
  rewards,
  old_probs,
  tags,          \* history: the episode in which each tuple was appended
  actor,         \* ActorNetwork parameters: [nan, step, table]
  critic,        \* CriticNetwork parameters: [nan, step]
  actor_grad,    \* losses whose backward() has written the actor's .grad
  critic_grad,   \* losses whose backward() has written the critic's .grad
  gamma,         \* PPOAgent.gamma
  epsilon,       \* PPOAgent.epsilon
  values,        \* locals of PPOAgent.update / compute_advantage
  advantages,
  returns,
  new_probs,
  ratio,
  surrogate,
  actor_loss,
  critic_loss,
  resets,        \* history: number of reset() calls so far
  steps,         \* history: number of step() calls so far
  updates,       \* history: number of update() calls so far
  prev_state,    \* history (last step() since the last reset()): state when it began
  last_delta,    \* history: action_changes of the last step()
  presum,        \* history: np.sum(self.state) of the last step(), line 66
  last_reward,   \* history: revenue returned by the last step()
  last_done      \* history: done flag returned by the last step()

vars == <<pc, betas, budget, num_episodes, env_state, episode, t, state,
          states, actions, rewards, old_probs, tags, actor, critic,
          actor_grad, critic_grad, gamma, epsilon, values, advantages,
          returns, new_probs, ratio, surrogate, actor_loss, critic_loss,
          resets, steps, updates, prev_state, last_delta, presum,
          last_reward, last_done>>

(***************************************************************************)
(* Bounds of the model.                                                    *)
(***************************************************************************)
Horizon == 2
NumEpisodes == 2
ResetGrid == 3
MaxEnvSteps == 2
MaxLen == 2

(***************************************************************************)
(* Program constants.                                                      *)
(***************************************************************************)
PertMin == -5
PertMax == 5

(***************************************************************************)
(* Exact arithmetic standing for the floats of numpy and torch.            *)
(***************************************************************************)
Abs(x) == IF x < 0 THEN -x ELSE x

RECURSIVE GCD(_, _)
GCD(a, b) == IF b = 0 THEN a ELSE GCD(b, a % b)

NaN == [n |-> 0, d |-> 0]

IsFinite(x) == x.d # 0

Rat(n, d) ==
  IF d = 0 THEN [n |-> IF n > 0 THEN 1 ELSE IF n < 0 THEN -1 ELSE 0, d |-> 0]
  ELSE LET g == GCD(Abs(n), Abs(d))
           s == IF d < 0 THEN -1 ELSE 1
       IN [n |-> s * (n \div g), d |-> s * (d \div g)]

RInt(k) == [n |-> k, d |-> 1]

Zero == RInt(0)

One == RInt(1)

\* An infinity never reaches arithmetic here: the only division by zero the
\* program performs is 0/0, so a non-finite operand is a NaN and propagates.
RAdd(a, b) ==
  IF ~IsFinite(a) \/ ~IsFinite(b) THEN NaN
  ELSE LET g == GCD(a.d, b.d)
           l == a.d * (b.d \div g)
       IN Rat(a.n * (l \div a.d) + b.n * (l \div b.d), l)

RNeg(a) == IF IsFinite(a) THEN [n |-> -a.n, d |-> a.d] ELSE NaN

RSub(a, b) == RAdd(a, RNeg(b))

RMul(a, b) ==
  IF ~IsFinite(a) \/ ~IsFinite(b) THEN NaN
  ELSE LET g1 == GCD(Abs(a.n), b.d)
           g2 == GCD(Abs(b.n), a.d)
       IN Rat((a.n \div g1) * (b.n \div g2), (a.d \div g2) * (b.d \div g1))

RDiv(a, b) ==
  IF ~IsFinite(a) \/ ~IsFinite(b) THEN NaN
  ELSE IF b.n = 0 THEN Rat(a.n, 0)
  ELSE RMul(a, Rat(b.d, b.n))

\* Comparisons with a NaN are false, as in IEEE 754.
RLe(a, b) == IsFinite(a) /\ IsFinite(b) /\ RSub(b, a).n >= 0

RLt(a, b) == IsFinite(a) /\ IsFinite(b) /\ RSub(b, a).n > 0

\* np.maximum and torch.min propagate NaN.
RMax(a, b) == IF ~IsFinite(a) \/ ~IsFinite(b) THEN NaN ELSE IF RLe(a, b) THEN b ELSE a

RMin(a, b) == IF ~IsFinite(a) \/ ~IsFinite(b) THEN NaN ELSE IF RLe(a, b) THEN a ELSE b

RECURSIVE SumTo(_, _)
SumTo(s, k) == IF k = 0 THEN Zero ELSE RAdd(SumTo(s, k - 1), s[k])

Sum(s) == SumTo(s, Len(s))

Dot(c, s) == Sum([i \in 1..Len(s) |-> RMul(RInt(c[i]), s[i])])

Mean(s) == RDiv(Sum(s), RInt(Len(s)))

AllFinite(s) == \A i \in 1..Len(s) : IsFinite(s[i])

(***************************************************************************)
(* MarketingEnv                                                            *)
(***************************************************************************)
\* np.random.dirichlet(np.ones(n)) * budget: a point of the simplex scaled by
\* the budget.  The draws enumerated are the grid points k/ResetGrid with every
\* component positive (a Dirichlet draw is positive with probability one).
Dirichlet(n) ==
  { k \in [1..n -> 1..ResetGrid] : Sum([i \in 1..n |-> RInt(k[i])]) = RInt(ResetGrid) }

ResetStates(n, B) ==
  { [i \in 1..n |-> RMul(Rat(k[i], ResetGrid), RInt(B))] : k \in Dirichlet(n) }

\* self.state += action_changes
AddChanges(s, delta) == [i \in 1..Len(s) |-> RAdd(s[i], RInt(delta[i]))]

\* self.state = np.maximum(self.state, 0)
ClampNonNeg(s) == [i \in 1..Len(s) |-> RMax(s[i], Zero)]

\* self.state = (self.state / np.sum(self.state)) * self.budget
Renormalize(s, B) == [i \in 1..Len(s) |-> RMul(RDiv(s[i], Sum(s)), RInt(B))]

\* revenue = np.dot(self.betas.numpy(), self.state)
Revenue(c, s) == Dot(c, s)

EnvStepRewardBeforeRenorm(s, delta, B, c) ==
  LET clamped == ClampNonNeg(AddChanges(s, delta))
      next == Renormalize(clamped, B)
  IN [state |-> next, reward |-> Revenue(c, clamped), done |-> FALSE,
      presum |-> Sum(clamped)]

\* MarketingEnv.step: the new state, the reward and the done flag it returns;
\* presum is the divisor np.sum(self.state) of line 66.
EnvStep(s, delta, B, c) ==
  LET clamped == ClampNonNeg(AddChanges(s, delta))
      next == Renormalize(clamped, B)
  IN [state |-> next, reward |-> Revenue(c, next), done |-> FALSE,
      presum |-> Sum(clamped)]

(***************************************************************************)
(* ActorNetwork and CriticNetwork                                          *)
(*                                                                         *)
(* A network is a deterministic function of its parameters and its input.  *)
(* The weights are not modelled: a forward pass on an input the current    *)
(* parameters have not yet seen may return any sample output, and returns  *)
(* the same output on every later pass until an optimizer step changes the *)
(* parameters (table is the function's graph as far as it was evaluated).  *)
(***************************************************************************)
\* torch.softmax output: non-negative entries that sum to one.
ProbSamples(n) ==
  { [i \in 1..n |-> IF n = 1 THEN One ELSE IF i = 1 THEN Rat(1, 4) ELSE Rat(3, 4 * (n - 1))],
    [i \in 1..n |-> IF i = n THEN One ELSE Zero] }

ValueSamples == {RInt(0), RInt(2)}

NaNVector(n) == [i \in 1..n |-> NaN]

\* ActorNetwork.forward: the outputs the pass may return
ActorForward(a, s) ==
  IF a.nan \/ ~AllFinite(s) THEN {NaNVector(Len(s))}
  ELSE IF \E e \in a.table : e.s = s THEN {e.p : e \in {x \in a.table : x.s = s}}
  ELSE ProbSamples(Len(s))

\* CriticNetwork.forward on a batch, squeezed: one value per state, equal
\* states giving equal values
CriticForward(c, batch) ==
  IF c.nan THEN {NaNVector(Len(batch))}
  ELSE { v \in [1..Len(batch) -> ValueSamples] :
           \A i, j \in 1..Len(batch) : batch[i] = batch[j] => v[i] = v[j] }

(***************************************************************************)
(* PPOAgent                                                                *)
(***************************************************************************)
\* The loop of compute_advantage, j-th pair from the end of both lists.
RECURSIVE AdvantageLoop(_, _, _, _, _, _, _)
AdvantageLoop(rw, vl, g, j, G, adv, ret) ==
  IF j > Len(rw) \/ j > Len(vl) THEN [advantages |-> adv, returns |-> ret]
  ELSE LET r == rw[Len(rw) - j + 1]
           v == vl[Len(vl) - j + 1]
           G1 == RAdd(r, RMul(g, G))
       IN AdvantageLoop(rw, vl, g, j + 1, G1,
                        <<RSub(G1, v)>> \o adv, <<G1>> \o ret)

ComputeAdvantageBootstrapped(rw, vl, g) ==
  AdvantageLoop(rw, vl, g, 1, vl[Len(vl)], <<>>, <<>>)

\* PPOAgent.compute_advantage
ComputeAdvantage(rw, vl, g) == AdvantageLoop(rw, vl, g, 1, Zero, <<>>, <<>>)

\* torch.clamp(x, lo, hi)
Clamp(x, lo, hi) == RMin(RMax(x, lo), hi)

\* ratio = new_probs / old_probs
Ratio(np, op) == [i \in 1..Len(np) |-> RDiv(np[i], op[i])]

SurrogateMax(rt, adv, eps) ==
  [i \in 1..Len(rt) |->
     RMax(RMul(rt[i], adv[i]),
          RMul(Clamp(rt[i], RSub(One, eps), RAdd(One, eps)), adv[i]))]

\* torch.min(surrogate1, surrogate2)
Surrogate(rt, adv, eps) ==
  [i \in 1..Len(rt) |->
     RMin(RMul(rt[i], adv[i]),
          RMul(Clamp(rt[i], RSub(One, eps), RAdd(One, eps)), adv[i]))]

\* actor_loss = -torch.min(surrogate1, surrogate2).mean()
ActorLoss(sur) == RNeg(Mean(sur))

\* critic_loss = (returns - values).pow(2).mean(): kept as finite or NaN, the
\* only thing about it that the optimizer step below depends on.
CriticLoss(ret, vl) ==
  IF AllFinite(ret) /\ AllFinite(vl) THEN "finite" ELSE "nan"

LossParamsAttached(loss) == {"actor", "critic"}

\* The networks whose parameters are in a loss's autograd graph.  advantages
\* and returns are rebuilt by torch.tensor(...) in compute_advantage and so
\* carry no graph: actor_loss reaches the actor through new_probs only, and
\* critic_loss reaches the critic through values only.
LossParams(loss) == IF loss = "actor_loss" THEN {"actor"} ELSE {"critic"}

\* loss.backward() as seen from one network's .grad
Backward(loss, net, grad) == IF net \in LossParams(loss) THEN grad \cup {loss} ELSE grad

(***************************************************************************)
(* Groups of variables                                                     *)
(***************************************************************************)
cfgVars == <<betas, budget, num_episodes>>
trajVars == <<states, actions, rewards, old_probs, tags>>
agentVars == <<actor, critic, actor_grad, critic_grad, gamma, epsilon>>
callVars == <<values, advantages, returns, new_probs, ratio, surrogate,
              actor_loss, critic_loss>>
stepVars == <<prev_state, last_delta, presum, last_reward, last_done>>

(***************************************************************************)
(* Values of the variables that an operation has not yet written.          *)
(***************************************************************************)
NoCall ==
  /\ values = <<>> /\ advantages = <<>> /\ returns = <<>>
  /\ new_probs = <<>> /\ ratio = <<>> /\ surrogate = <<>>
  /\ actor_loss = Zero /\ critic_loss = "none"

NoTrajectory ==
  /\ states = <<>> /\ actions = <<>> /\ rewards = <<>> /\ old_probs = <<>>
  /\ tags = <<>>

NoStep ==
  /\ prev_state = <<>> /\ last_delta = <<>> /\ presum = Zero
  /\ last_reward = Zero /\ last_done = FALSE

\* update has returned: its locals are gone
ClearCall ==
  /\ values' = <<>> /\ advantages' = <<>> /\ returns' = <<>>
  /\ new_probs' = <<>> /\ ratio' = <<>> /\ surrogate' = <<>>
  /\ actor_loss' = Zero /\ critic_loss' = "none"

\* reset() has run: no step() since
ClearStep ==
  /\ prev_state' = <<>> /\ last_delta' = <<>> /\ presum' = Zero
  /\ last_reward' = Zero /\ last_done' = FALSE

\* PPOAgent.__init__ with the defaults gamma = 0.99 and epsilon = 0.2
NewAgent ==
  /\ actor = [nan |-> FALSE, step |-> 0, table |-> {}]
  /\ critic = [nan |-> FALSE, step |-> 0]
  /\ actor_grad = {} /\ critic_grad = {}
  /\ gamma = Rat(99, 100) /\ epsilon = Rat(1, 5)

NoLoop ==
  /\ num_episodes = 0 /\ episode = 0 /\ t = 0 /\ state = <<>>

NoEnv ==
  /\ betas = <<>> /\ budget = 0 /\ env_state = <<>>
  /\ resets = 0 /\ steps = 0

(***************************************************************************)
(* The environment driven directly: construction, reset() and step() with  *)
(* change vectors of any sign and magnitude.                               *)
(***************************************************************************)
EnvConfigs ==
  { [betas |-> <<1, 2, 3>>, budget |-> 300, deltas |-> {-400, 0, 200}],
    [betas |-> <<2, 3>>, budget |-> 4, deltas |-> {-5, -1, 0, 3}],
    [betas |-> <<3>>, budget |-> 6, deltas |-> {-7, -2, 0, 5}] }

DeltaSamples ==
  UNION { IF c.budget = budget /\ c.betas = betas THEN c.deltas ELSE {} : c \in EnvConfigs }

InitEnv ==
  /\ pc = "env_new"
  /\ \E c \in EnvConfigs : betas = c.betas /\ budget = c.budget
  /\ env_state = <<>> /\ resets = 0 /\ steps = 0 /\ updates = 0
  /\ NoLoop /\ NoTrajectory /\ NewAgent /\ NoCall /\ NoStep

\* MarketingEnv.reset (also the last statement of __init__)
EnvReset ==
  /\ pc \in {"env_new", "env"}
  /\ resets <= steps
  /\ \E s \in ResetStates(Len(betas), budget) : env_state' = s
  /\ pc' = "env"
  /\ resets' = resets + 1
  /\ ClearStep
  /\ UNCHANGED <<cfgVars, episode, t, state, trajVars, agentVars, callVars,
                 steps, updates>>

\* MarketingEnv.step called with an arbitrary change vector
EnvStepCall ==
  /\ pc = "env"
  /\ steps < MaxEnvSteps
  /\ \E delta \in [1..Len(betas) -> DeltaSamples] :
       LET r == EnvStep(env_state, delta, budget, betas)
       IN /\ env_state' = r.state
          /\ last_reward' = r.reward
          /\ last_done' = r.done
          /\ presum' = r.presum
          /\ prev_state' = env_state
          /\ last_delta' = delta
  /\ steps' = steps + 1
  /\ UNCHANGED <<pc, cfgVars, episode, t, state, trajVars, agentVars, callVars,
                 resets, updates>>

NextEnv == EnvReset \/ EnvStepCall

SpecEnv == InitEnv /\ [][NextEnv]_vars

(***************************************************************************)
(* compute_advantage called directly on a trajectory.                      *)
(***************************************************************************)
RewardSamples == {RInt(0), RInt(1), RInt(3)}

GammaSamples == {Rat(1, 2), Rat(99, 100)}

InitAdv ==
  /\ pc = "adv_call"
  /\ \E len \in 1..MaxLen :
       /\ rewards \in [1..len -> RewardSamples]
       /\ values \in [1..len -> ValueSamples]
  /\ actor = [nan |-> FALSE, step |-> 0, table |-> {}]
  /\ critic = [nan |-> FALSE, step |-> 0]
  /\ actor_grad = {} /\ critic_grad = {}
  /\ gamma \in GammaSamples /\ epsilon = Rat(1, 5)
  /\ advantages = <<>> /\ returns = <<>>
  /\ new_probs = <<>> /\ ratio = <<>> /\ surrogate = <<>>
  /\ actor_loss = Zero /\ critic_loss = "none"
  /\ states = <<>> /\ actions = <<>> /\ old_probs = <<>> /\ tags = <<>>
  /\ NoEnv /\ NoLoop /\ NoStep /\ updates = 0

AdvCall ==
  /\ pc = "adv_call"
  /\ LET r == ComputeAdvantage(rewards, values, gamma)
     IN advantages' = r.advantages /\ returns' = r.returns
  /\ pc' = "adv_done"
  /\ UNCHANGED <<cfgVars, env_state, episode, t, state, trajVars, agentVars,
                 values, new_probs, ratio, surrogate, actor_loss, critic_loss,
                 stepVars, resets, steps, updates>>

NextAdv == AdvCall

SpecAdv == InitAdv /\ [][NextAdv]_vars

(***************************************************************************)
(* The clipped surrogate of update, lines 154-159, on arbitrary            *)
(* probabilities and advantages.                                           *)
(***************************************************************************)
ProbValues == {Rat(1, 4), Rat(1, 2), One}

AdvantageSamples == {RInt(-2), RInt(1), RInt(3)}

InitLoss ==
  /\ pc = "loss_call"
  /\ \E len \in 1..MaxLen :
       /\ new_probs \in [1..len -> ProbValues]
       /\ old_probs \in [1..len -> ProbValues]
       /\ advantages \in [1..len -> AdvantageSamples]
  /\ NewAgent
  /\ values = <<>> /\ returns = <<>> /\ ratio = <<>> /\ surrogate = <<>>
  /\ actor_loss = Zero /\ critic_loss = "none"
  /\ states = <<>> /\ actions = <<>> /\ rewards = <<>> /\ tags = <<>>
  /\ NoEnv /\ NoLoop /\ NoStep /\ updates = 0

LossCall ==
  /\ pc = "loss_call"
  /\ ratio' = Ratio(new_probs, old_probs)
  /\ surrogate' = Surrogate(ratio', advantages, epsilon)
  /\ actor_loss' = ActorLoss(surrogate')
  /\ pc' = "loss_done"
  /\ UNCHANGED <<cfgVars, env_state, episode, t, state, trajVars, agentVars,
                 values, advantages, returns, new_probs, critic_loss,
                 stepVars, resets, steps, updates>>

NextLoss == LossCall

SpecLoss == InitLoss /\ [][NextLoss]_vars

(***************************************************************************)
(* The training cell: construction, then num_episodes episodes of reset,   *)
(* rollout and update.                                                     *)
(***************************************************************************)
Configs ==
  { [betas |-> <<3>>, budget |-> 4], [betas |-> <<3>>, budget |-> 5],
    [betas |-> <<3>>, budget |-> 6], [betas |-> <<3>>, budget |-> 7],
    [betas |-> <<2, 3>>, budget |-> 4], [betas |-> <<2, 3>>, budget |-> 6] }

\* np.random.uniform(-5, 5): the low end is included, the high end is not
PertSamplesWide == {2 * PertMin, PertMin \div 2, 2 * PertMax - 1}

PertSamples == {PertMin, PertMin \div 2, PertMax - 1}

InitCell(cfgs, eps) ==
  /\ pc = "new"
  /\ \E c \in cfgs : betas = c.betas /\ budget = c.budget
  /\ num_episodes \in eps
  /\ env_state = <<>> /\ resets = 0 /\ steps = 0 /\ updates = 0
  /\ episode = 0 /\ t = 0 /\ state = <<>>
  /\ NoTrajectory /\ NewAgent /\ NoCall /\ NoStep

Init == InitCell(Configs, {NumEpisodes})

\* env = MarketingEnv(betas): __init__ stores the fields and calls reset()
ConstructEnv ==
  /\ pc = "new"
  /\ \E s \in ResetStates(Len(betas), budget) : env_state' = s
  /\ resets' = resets + 1
  /\ pc' = "env_built"
  /\ UNCHANGED <<cfgVars, episode, t, state, trajVars, agentVars, callVars,
                 stepVars, steps, updates>>

\* ppo_agent = PPOAgent(state_dim=len(betas))
ConstructAgent ==
  /\ pc = "env_built"
  /\ actor' = [nan |-> FALSE, step |-> 0, table |-> {}]
  /\ critic' = [nan |-> FALSE, step |-> 0]
  /\ actor_grad' = {} /\ critic_grad' = {}
  /\ gamma' = Rat(99, 100) /\ epsilon' = Rat(1, 5)
  /\ episode' = 0
  /\ pc' = "loop"
  /\ UNCHANGED <<cfgVars, env_state, t, state, trajVars, callVars, stepVars,
                 resets, steps, updates>>

EpisodeStartKeepsTrajectory ==
  /\ pc = "loop"
  /\ episode < num_episodes
  /\ \E s \in ResetStates(Len(betas), budget) : env_state' = s /\ state' = s
  /\ resets' = resets + 1
  /\ t' = 0
  /\ pc' = "rollout"
  /\ ClearStep
  /\ UNCHANGED <<cfgVars, episode, trajVars, agentVars, callVars, steps,
                 updates>>

\* lines 189-192: the head of an episode
EpisodeStart ==
  /\ pc = "loop"
  /\ episode < num_episodes
  /\ \E s \in ResetStates(Len(betas), budget) : env_state' = s /\ state' = s
  /\ resets' = resets + 1
  /\ states' = <<>> /\ actions' = <<>> /\ rewards' = <<>> /\ old_probs' = <<>>
  /\ tags' = <<>>
  /\ t' = 0
  /\ pc' = "rollout"
  /\ ClearStep
  /\ UNCHANGED <<cfgVars, episode, agentVars, callVars, steps, updates>>

\* action_changes = np.zeros(len(betas)); action_changes[action] = magnitude
ActionChanges(n, a, magnitude) == [i \in 1..n |-> IF i = a THEN magnitude ELSE 0]

\* lines 195-210: one iteration of the rollout loop
RolloutStep ==
  /\ pc = "rollout"
  /\ \E action_probs \in ActorForward(actor, state) :
       /\ AllFinite(action_probs)
       /\ \E action \in 1..Len(betas) :
            /\ RLt(Zero, action_probs[action])
            /\ \E magnitude \in PertSamples :
                 LET delta == ActionChanges(Len(betas), action, magnitude)
                     r == EnvStep(env_state, delta, budget, betas)
                 IN /\ env_state' = r.state
                    /\ state' = r.state
                    /\ last_reward' = r.reward
                    /\ last_done' = r.done
                    /\ presum' = r.presum
                    /\ prev_state' = env_state
                    /\ last_delta' = delta
                    /\ rewards' = Append(rewards, r.reward)
            /\ actions' = Append(actions, action)
            /\ old_probs' = Append(old_probs, action_probs[action])
       /\ actor' = [actor EXCEPT !.table = @ \cup {[s |-> state, p |-> action_probs]}]
  /\ states' = Append(states, state)
  /\ tags' = Append(tags, episode)
  /\ steps' = steps + 1
  /\ t' = t + 1
  /\ pc' = IF t + 1 < Horizon THEN "rollout" ELSE "update"
  /\ UNCHANGED <<cfgVars, episode, critic, actor_grad, critic_grad, gamma,
                 epsilon, callVars, resets, updates>>

\* torch.multinomial raises on a probability tensor that holds a NaN: the
\* run ends with the exception
MultinomialRaises ==
  /\ pc = "rollout"
  /\ \E action_probs \in ActorForward(actor, state) : ~AllFinite(action_probs)
  /\ pc' = "raised"
  /\ UNCHANGED <<cfgVars, env_state, episode, t, state, trajVars, agentVars,
                 callVars, stepVars, resets, steps, updates>>

NewProbsAfterStep(a, batch, acts) ==
  { [i \in 1..Len(batch) |-> out[i][acts[i]]] :
      out \in { o \in [1..Len(batch) -> ProbSamples(Len(batch[1]))] :
                  \A i, j \in 1..Len(batch) : batch[i] = batch[j] => o[i] = o[j] } }

\* The probabilities the actor gives the actions taken:
\* self.actor(states).gather(1, actions.unsqueeze(1)).squeeze()
NewProbs(a, batch, acts) ==
  { [i \in 1..Len(batch) |-> out[i][acts[i]]] :
      out \in { o \in [1..Len(batch) -> UNION {ActorForward(a, batch[i]) : i \in 1..Len(batch)}] :
                  /\ \A i \in 1..Len(batch) : o[i] \in ActorForward(a, batch[i])
                  /\ \A i, j \in 1..Len(batch) : batch[i] = batch[j] => o[i] = o[j] } }

\* An optimizer step on a network whose .grad was written: new parameters,
\* NaN when the loss was
StepActor(a, grad, loss) ==
  IF grad = {} THEN a
  ELSE [nan |-> a.nan \/ ~IsFinite(loss), step |-> a.step + 1, table |-> {}]

StepCritic(c, grad, loss) ==
  IF grad = {} THEN c
  ELSE [nan |-> c.nan \/ loss = "nan", step |-> c.step + 1]

\* PPOAgent.update, lines 149-167: the losses and the actor's optimizer step
UpdateActor ==
  /\ pc = "update"
  /\ updates' = updates + 1
  /\ \E vl \in CriticForward(critic, states) :
       \E np \in NewProbs(actor, states, actions) :
         LET adv == ComputeAdvantage(rewards, vl, gamma)
             rt == Ratio(np, old_probs)
             sur == Surrogate(rt, adv.advantages, epsilon)
             aloss == ActorLoss(sur)
             agrad == Backward("actor_loss", "actor", {})
         IN /\ values' = vl
            /\ advantages' = adv.advantages
            /\ returns' = adv.returns
            /\ new_probs' = np
            /\ ratio' = rt
            /\ surrogate' = sur
            /\ actor_loss' = aloss
            /\ critic_loss' = CriticLoss(adv.returns, vl)
            /\ actor_grad' = agrad
            /\ critic_grad' = Backward("actor_loss", "critic", critic_grad)
            /\ actor' = StepActor(actor, agrad, aloss)
  /\ pc' = "update_critic"
  /\ UNCHANGED <<cfgVars, env_state, episode, t, state, trajVars, critic,
                 gamma, epsilon, stepVars, resets, steps>>

\* PPOAgent.update, lines 169-171: the critic's optimizer step; update returns
\* (its locals are gone) and the loop moves to the next episode
UpdateCritic ==
  /\ pc = "update_critic"
  /\ LET cgrad == Backward("critic_loss", "critic", {})
     IN /\ critic_grad' = cgrad
        /\ actor_grad' = Backward("critic_loss", "actor", actor_grad)
        /\ critic' = StepCritic(critic, cgrad, critic_loss)
  /\ ClearCall
  /\ episode' = episode + 1
  /\ pc' = "loop"
  /\ UNCHANGED <<cfgVars, env_state, t, state, trajVars, actor, gamma, epsilon,
                 stepVars, resets, steps, updates>>

\* range(num_episodes) is exhausted
LoopExit ==
  /\ pc = "loop"
  /\ episode >= num_episodes
  /\ pc' = "done"
  /\ UNCHANGED <<cfgVars, env_state, episode, t, state, trajVars, agentVars,
                 callVars, stepVars, resets, steps, updates>>

Next ==
  \/ ConstructEnv
  \/ ConstructAgent
  \/ EpisodeStart
  \/ RolloutStep
  \/ MultinomialRaises
  \/ UpdateActor
  \/ UpdateCritic
  \/ LoopExit

Spec == Init /\ [][Next]_vars

\* The same cell started with a non-positive budget or episode count
InvalidConfigs ==
  { [betas |-> <<2, 3>>, budget |-> 0], [betas |-> <<2, 3>>, budget |-> -4],
    [betas |-> <<3>>, budget |-> -4] }

InvalidEpisodes == {0, -1}

InitConfig ==
  \/ InitCell(InvalidConfigs, {NumEpisodes})
  \/ InitCell(Configs, InvalidEpisodes)

SpecConfig == InitConfig /\ [][Next]_vars

(***************************************************************************)
(* Properties                                                              *)
(***************************************************************************)
NonNegative(s) == \A i \in 1..Len(s) : RLe(Zero, s[i])

Stepped == prev_state # <<>>

\* C1: after construction, after every reset() and after every step(delta),
\* every entry of the allocation is >= 0 and the entries sum to the budget.
BudgetConserved ==
  pc = "env" => NonNegative(env_state) /\ Sum(env_state) = RInt(budget)

\* C2: a step whose clamped allocation sums to zero fails at once and yields
\* neither a state nor a reward that is the result of a division by zero.
DegenerateStepFails ==
  (Stepped /\ presum = Zero) =>
    (pc = "raised" /\ AllFinite(env_state) /\ IsFinite(last_reward))

InvalidConfig == budget <= 0 \/ Len(betas) = 0 \/ num_episodes <= 0

\* C3: with a non-positive budget, an empty coefficient vector or a
\* non-positive episode count the run fails before any reset, step or update.
InvalidConfigRejected ==
  InvalidConfig =>
    (pc \in {"new", "raised"} /\ resets = 0 /\ steps = 0 /\ updates = 0)

ClampedRevenue ==
  Sum([i \in 1..Len(prev_state) |->
         LET moved == RAdd(prev_state[i], RInt(last_delta[i]))
         IN RMul(RInt(betas[i]), IF moved.n < 0 THEN Zero ELSE moved)])

\* C4: the reward of step(delta) is the dot product of the coefficients with
\* the allocation after renormalization, a function of the allocation before
\* the step and delta: budget * sum(beta_i * max(x_i + delta_i, 0)) divided by
\* sum(max(x_i + delta_i, 0)); coefficients [1,2,3] with budget 300 give 600
\* on [100,100,100] and 900 on [0,0,300].
RewardIsRevenueAfterRenormalization ==
  Stepped =>
    /\ last_reward = Dot(betas, env_state)
    /\ (presum # Zero =>
          RMul(last_reward, presum) = RMul(RInt(budget), ClampedRevenue))
    /\ (betas = <<1, 2, 3>> /\ budget = 300
          /\ env_state = <<RInt(100), RInt(100), RInt(100)>>
        => last_reward = RInt(600))
    /\ (betas = <<1, 2, 3>> /\ budget = 300
          /\ env_state = <<Zero, Zero, RInt(300)>>
        => last_reward = RInt(900))

RewardAfterReallocation ==
  /\ betas = <<1, 2, 3>> /\ budget = 300
  /\ prev_state = <<RInt(100), RInt(100), RInt(100)>>
  /\ last_delta = <<-400, -400, 0>>
  /\ env_state = <<Zero, Zero, RInt(300)>>
  /\ last_reward = RInt(900)

\* C5: compute_advantage returns, in trajectory order, returns[k] = r_k +
\* gamma * returns[k+1] with the return after the last step taken as 0, and
\* advantages[k] = returns[k] - values[k]; rewards [1,1], values [0,0] and
\* gamma 0.5 give returns [1.5, 1] and advantages [1.5, 1].
AdvantageRecursion ==
  pc = "adv_done" =>
    /\ Len(returns) = Len(rewards)
    /\ Len(advantages) = Len(rewards)
    /\ \A k \in 1..Len(rewards) :
         /\ returns[k] =
              RAdd(rewards[k],
                   RMul(gamma, IF k = Len(rewards) THEN Zero ELSE returns[k + 1]))
         /\ advantages[k] = RSub(returns[k], values[k])
    /\ (Len(rewards) = 1 =>
          /\ returns = <<rewards[1]>>
          /\ advantages = <<RSub(rewards[1], values[1])>>)
    /\ (rewards = <<One, One>> /\ values = <<Zero, Zero>> /\ gamma = Rat(1, 2)
        => /\ returns = <<Rat(3, 2), One>>
           /\ advantages = <<Rat(3, 2), One>>)

AdvantageExample ==
  /\ pc = "adv_done"
  /\ rewards = <<One, One>> /\ values = <<Zero, Zero>> /\ gamma = Rat(1, 2)
  /\ returns = <<Rat(3, 2), One>>
  /\ advantages = <<Rat(3, 2), One>>

ClipLow == RSub(One, epsilon)

ClipHigh == RAdd(One, epsilon)

Clipped(r) == IF RLt(r, ClipLow) THEN ClipLow ELSE IF RLt(ClipHigh, r) THEN ClipHigh ELSE r

\* C6: the actor loss is the negative mean over the trajectory of
\* min(ratio * advantage, clip(ratio, 1 - eps, 1 + eps) * advantage), and a
\* step with positive advantage whose ratio is outside [1 - eps, 1 + eps]
\* enters the loss with a term of at most (1 + eps) * advantage.
ClippedSurrogate ==
  pc = "loss_done" =>
    /\ Len(surrogate) = Len(advantages)
    /\ \A i \in 1..Len(advantages) :
         LET r == RDiv(new_probs[i], old_probs[i])
             unclipped == RMul(r, advantages[i])
             clipped == RMul(Clipped(r), advantages[i])
         IN /\ ratio[i] = r
            /\ surrogate[i] = IF RLe(unclipped, clipped) THEN unclipped ELSE clipped
            /\ (RLt(Zero, advantages[i]) /\ (RLt(r, ClipLow) \/ RLt(ClipHigh, r))
                => RLe(surrogate[i], RMul(ClipHigh, advantages[i])))
    /\ RMul(actor_loss, RInt(Len(advantages))) = RNeg(Sum(surrogate))

RatioClippedFromAbove ==
  /\ pc = "loss_done"
  /\ \E i \in 1..Len(advantages) :
       /\ RLt(Zero, advantages[i])
       /\ RLt(ClipHigh, ratio[i])
       /\ surrogate[i] = RMul(ClipHigh, advantages[i])

InEpisode == pc \in {"rollout", "update", "update_critic"}

\* C7: the loop runs num_episodes episodes and stops; an episode is one
\* reset, then exactly Horizon sample-and-step iterations (step always returns
\* done = false), then one update on exactly the Horizon tuples of that
\* episode; update is not called mid-episode and gets no earlier tuple.
TrainingProtocol ==
  /\ last_done = FALSE
  /\ episode <= num_episodes
  /\ Len(states) = Len(tags) /\ Len(actions) = Len(tags)
  /\ Len(rewards) = Len(tags) /\ Len(old_probs) = Len(tags)
  /\ \A i \in 1..Len(tags) : tags[i] = episode - (IF pc \in {"loop", "done"} THEN 1 ELSE 0)
  /\ (pc = "rollout" => t < Horizon /\ Len(states) = t /\ updates = episode)
  /\ (pc = "update" => t = Horizon /\ Len(states) = Horizon /\ updates = episode)
  /\ (pc = "update_critic" => Len(states) = Horizon /\ updates = episode + 1)
  /\ (InEpisode => resets = episode + 2 /\ steps = episode * Horizon + t)
  /\ (pc = "loop" => /\ updates = episode
                     /\ resets = episode + 1
                     /\ steps = episode * Horizon)
  /\ (pc = "done" => /\ episode = num_episodes
                     /\ updates = num_episodes
                     /\ resets = num_episodes + 1
                     /\ steps = num_episodes * Horizon)

TrainingCompleted ==
  /\ pc = "done"
  /\ updates = NumEpisodes /\ NumEpisodes > 1
  /\ steps = NumEpisodes * Horizon
  /\ Len(states) = Horizon

OneStepPerNetwork ==
  /\ actor_grad \subseteq {"actor_loss"}
  /\ critic_grad \subseteq {"critic_loss"}
  /\ actor.step = updates
  /\ critic.step = updates - (IF pc = "update_critic" THEN 1 ELSE 0)

UpdateFrame ==
  /\ (pc = "update" => critic' = critic)
  /\ (pc = "update_critic" => actor' = actor)
  /\ (actor' # actor /\ pc # "env_built" => pc \in {"rollout", "update"})
  /\ (actor'.step # actor.step => pc = "update" /\ actor'.step = actor.step + 1)
  /\ (critic'.step # critic.step => pc = "update_critic" /\ critic'.step = critic.step + 1)

\* C8: an update applies one optimizer step to the actor and one to the
\* critic, and gradients do not cross: the actor's step leaves the critic's
\* parameters unchanged, the critic's step leaves the actor's unchanged, and
\* neither network's gradient holds a contribution of the other's loss.
GradientsDoNotCross == []OneStepPerNetwork /\ [][UpdateFrame]_vars

SecondActorStepDone ==
  /\ pc = "update_critic"
  /\ actor.step = 2 /\ critic.step = 1
  /\ actor_grad = {"actor_loss"} /\ critic_grad = {"critic_loss"}

\* C9 as stated: for any budget > 0 and any number of channels, no step of
\* the rollout has a clamped allocation that sums to zero.
NeverDegenerate == Stepped => presum # Zero

\* C9 as amended: when the budget exceeds 5, the largest magnitude of a
\* perturbation, the clamped allocation of every rollout step sums to at
\* least budget - 5, which is positive.
NeverDegenerateAboveRange ==
  (budget > -PertMin /\ Stepped) =>
    (RLt(Zero, presum) /\ RLe(RInt(budget + PertMin), presum))

ClampedButPositive ==
  /\ budget > -PertMin
  /\ pc \in {"rollout", "update"}
  /\ Stepped
  /\ \E i \in 1..Len(last_delta) :
       /\ last_delta[i] = PertMin
       /\ RLt(prev_state[i], RInt(-PertMin))
  /\ RLt(Zero, presum)

\* C10: every probability ratio computed in update is 1, in every episode,
\* so clipping never changes the surrogate and the actor loss is the negative
\* mean advantage.
RatioIsOne ==
  pc = "update_critic" =>
    /\ Len(ratio) = Horizon
    /\ \A i \in 1..Len(ratio) : ratio[i] = One
    /\ new_probs = old_probs
    /\ surrogate = advantages
    /\ actor_loss = RNeg(Mean(advantages))

RatioOneOnSecondUpdate ==
  /\ pc = "update_critic"
  /\ updates = 2
  /\ \A i \in 1..Len(ratio) : ratio[i] = One
  /\ \E i \in 1..Len(old_probs) : old_probs[i] # One
  /\ AllFinite(advantages)
  /\ actor_loss # Zero

====
